---- MODULE Spec2Model ----
(***************************************************************************)
(* Reed-Solomon parity encoder (rs_encoder.c): the table-driven GF(16)     *)
(* arithmetic and the LFSR encoding loop of rs_encode_message, together    *)
(* with a caller that owns the message and the parity buffer.              *)
(*                                                                         *)
(* A call is modelled in steps: Begin (entry, padding and copy into msgZ), *)
(* one LfsrStep per iteration of the encoding loop, and Return.  An array  *)
(* access outside its array (msgZ, a lookup table) is undefined behaviour: *)
(* the call then ends in pc = "undefined", a state of which nothing is     *)
(* known, neither the return value nor the content of any buffer.          *)
(***************************************************************************)
EXTENDS Integers, Sequences, FiniteSets, TLC

VARIABLES
    pc,        \* "idle" | "loop" | "done" | "undefined"
    msg,       \* argument msg: the caller's message, a sequence of bytes
    k,         \* argument k
    t,         \* argument t
    m,         \* argument m
    parity,    \* the caller's parity buffer, [0..ParityCap-1 -> 0..255]
    entry,     \* the parity buffer as it was when the call was entered
    msgZ,      \* local msgZ, [0..MsgZLen-1 -> 0..255]
    shortened, \* local shortened
    i,         \* loop counter of the encoding loop
    ret,       \* the value returned by the last completed call
    idx,       \* the msgZ indices the call has used
    written,   \* the parity indices the call has stored to
    prev,      \* the previous completed call: its arguments and its output
    calls,     \* the number of calls started
    other,     \* a second message of the same length, kept by the caller
    gfcall     \* the last direct table lookup: <<function, m, l, r, result>>

vars == <<pc, msg, k, t, m, parity, entry, msgZ, shortened, i, ret, idx,
          written, prev, calls, other, gfcall>>

----------------------------------------------------------------------------
(* Program constants (rs_encoder.h).                                       *)

RS_MAX_SYMBOL_SIZE == 5
RS_MAX_PARITY_SYMBOLS == 8
RS_MAX_MESSAGE_LENGTH == 16

\* uint8_t msgZ[RS_MAX_PARITY_SYMBOLS + RS_MAX_MESSAGE_LENGTH]
MsgZLen == RS_MAX_PARITY_SYMBOLS + RS_MAX_MESSAGE_LENGTH

\* The caller's buffer: one element more than the largest supported t, so
\* that every call of the model has the capacity >= t the header asks for.
ParityCap == RS_MAX_PARITY_SYMBOLS + 1

\* Conversion of an int to uint8_t on a store into a uint8_t array.
ToU8(x) == x % 256

----------------------------------------------------------------------------
(* Bounds of the model.                                                    *)

MaxCalls == 2      \* calls one behaviour makes
MaxRot == 2        \* rotations of the sample message used as inputs
MaxDirty == 1      \* the buffer holds the same value 0..MaxDirty everywhere on entry
MaxFullLen == 2    \* every message up to this length is an input

----------------------------------------------------------------------------
(* The precomputed tables.                                                 *)

GALOIS_PRODUCTS_4_FirstRowSwapped ==
    << <<0,0,0,0>>,    <<12,13,8,7>>,  <<9,11,3,14>>,  <<4,7,11,9>>,
       <<1,5,6,15>>,   <<12,9,14,8>>,  <<8,14,5,1>>,   <<5,2,13,6>>,
       <<2,10,12,13>>, <<15,6,4,10>>,  <<11,1,15,3>>,  <<6,13,7,4>>,
       <<3,15,10,2>>,  <<14,3,2,5>>,   <<10,4,9,12>>,  <<7,8,1,11>> >>

GALOIS_PRODUCTS_4 ==
    << <<0,0,0,0>>,    <<13,12,8,7>>,  <<9,11,3,14>>,  <<4,7,11,9>>,
       <<1,5,6,15>>,   <<12,9,14,8>>,  <<8,14,5,1>>,   <<5,2,13,6>>,
       <<2,10,12,13>>, <<15,6,4,10>>,  <<11,1,15,3>>,  <<6,13,7,4>>,
       <<3,15,10,2>>,  <<14,3,2,5>>,   <<10,4,9,12>>,  <<7,8,1,11>> >>

GALOIS_ADDITIONS_4_OneEntryOff ==
    << <<0,1,2,3,4,5,6,7,8,9,10,11,12,13,14,15>>,
       <<1,0,3,2,5,4,7,6,9,8,11,10,13,12,15,14>>,
       <<2,3,0,1,6,7,4,5,10,11,8,9,14,15,12,13>>,
       <<3,2,1,0,7,6,5,4,11,10,9,8,15,14,13,12>>,
       <<4,5,6,7,0,1,2,3,12,13,14,15,8,9,10,11>>,
       <<5,4,7,6,1,0,3,2,13,12,15,14,9,8,11,10>>,
       <<6,7,4,5,2,3,0,1,14,15,12,13,10,11,8,9>>,
       <<7,6,5,4,3,2,1,0,15,14,13,12,11,10,9,8>>,
       <<8,9,10,11,12,13,14,15,0,1,2,3,4,5,6,7>>,
       <<9,8,11,10,13,12,15,14,1,0,3,2,5,4,7,6>>,
       <<10,11,8,9,14,15,12,13,2,3,0,1,6,7,4,5>>,
       <<11,10,9,8,15,14,13,12,3,2,1,0,7,6,5,4>>,
       <<12,13,14,15,8,9,10,11,4,5,6,7,0,1,2,3>>,
       <<13,12,15,14,9,8,11,10,5,4,7,6,1,0,3,2>>,
       <<14,15,12,13,10,11,8,9,6,7,4,5,2,3,0,1>>,
       <<15,14,13,12,11,10,9,8,7,6,5,4,3,2,0,1>> >>

GALOIS_ADDITIONS_4 ==
    << <<0,1,2,3,4,5,6,7,8,9,10,11,12,13,14,15>>,
       <<1,0,3,2,5,4,7,6,9,8,11,10,13,12,15,14>>,
       <<2,3,0,1,6,7,4,5,10,11,8,9,14,15,12,13>>,
       <<3,2,1,0,7,6,5,4,11,10,9,8,15,14,13,12>>,
       <<4,5,6,7,0,1,2,3,12,13,14,15,8,9,10,11>>,
       <<5,4,7,6,1,0,3,2,13,12,15,14,9,8,11,10>>,
       <<6,7,4,5,2,3,0,1,14,15,12,13,10,11,8,9>>,
       <<7,6,5,4,3,2,1,0,15,14,13,12,11,10,9,8>>,
       <<8,9,10,11,12,13,14,15,0,1,2,3,4,5,6,7>>,
       <<9,8,11,10,13,12,15,14,1,0,3,2,5,4,7,6>>,
       <<10,11,8,9,14,15,12,13,2,3,0,1,6,7,4,5>>,
       <<11,10,9,8,15,14,13,12,3,2,1,0,7,6,5,4>>,
       <<12,13,14,15,8,9,10,11,4,5,6,7,0,1,2,3>>,
       <<13,12,15,14,9,8,11,10,5,4,7,6,1,0,3,2>>,
       <<14,15,12,13,10,11,8,9,6,7,4,5,2,3,0,1>>,
       <<15,14,13,12,11,10,9,8,7,6,5,4,3,2,1,0>> >>

\* A table lookup table[l][r] stays inside the array it reads.
InTable(tbl, l, r) ==
    /\ l \in 0..(Len(tbl) - 1)
    /\ r \in 0..(Len(tbl[1]) - 1)

\* galois_field_add reads GALOIS_ADDITIONS_4[l][r] only when m = 4.
AddInBounds(mm, l, r) == mm = 4 => InTable(GALOIS_ADDITIONS_4, l, r)

galois_field_add(mm, l, r) ==
    CASE mm = 4 -> GALOIS_ADDITIONS_4[l + 1][r + 1]
      [] mm = 5 -> 0
      [] OTHER  -> -1

galois_field_multiply_generator_NextColumn(mm, l, genIndex) ==
    CASE mm = 4 -> GALOIS_PRODUCTS_4[l + 1][((genIndex + 1) % 4) + 1]
      [] mm = 5 -> 0
      [] OTHER  -> -1

\* galois_field_multiply_generator reads GALOIS_PRODUCTS_4[l][genIndex] only when m = 4.
MulInBounds(mm, l, genIndex) == mm = 4 => InTable(GALOIS_PRODUCTS_4, l, genIndex)

galois_field_multiply_generator(mm, l, genIndex) ==
    CASE mm = 4 -> GALOIS_PRODUCTS_4[l + 1][genIndex + 1]
      [] mm = 5 -> 0
      [] OTHER  -> -1

----------------------------------------------------------------------------
(* rs_encode_message.                                                      *)

\* int blockSize = 1 << m
BlockSize(mm) == 2 ^ mm

ShortenedOffByOne(kk, tt, mm) == BlockSize(mm) - (kk + tt)

\* int shortened = (blockSize - 1) - n, with n = k + t
Shortened(kk, tt, mm) == (BlockSize(mm) - 1) - (kk + tt)

\* The msgZ indices the padding loop and the copy loop store to; the
\* encoding loop reads msgZ[i] for i < shortened + k, the same indices
\* whenever these are all non-negative.
PadIndices(kk, tt, mm) == 0 .. (Shortened(kk, tt, mm) - 1)
CopyIndices(kk, tt, mm) ==
    { j + Shortened(kk, tt, mm) : j \in 0 .. (kk - 1) }
MsgZIndices(kk, tt, mm) == PadIndices(kk, tt, mm) \cup CopyIndices(kk, tt, mm)

\* msgZ after the padding and the copy, when every store is inside msgZ.
PaddedMessage(ms, kk, tt, mm) ==
    [ j \in 0 .. (MsgZLen - 1) |->
        IF j \in CopyIndices(kk, tt, mm)
        THEN ms[(j - Shortened(kk, tt, mm)) + 1]
        ELSE 0 ]

\* int msgZJPlusParity1 = galois_field_add(m, msgZ[i], parity[0])
Feedback(mm, s, par) == galois_field_add(mm, s, par[0])

\* rhs[j] = galois_field_multiply_generator(m, msgZJPlusParity1, j), j < m
Rhs(mm, s, par, j) == galois_field_multiply_generator(mm, Feedback(mm, s, par), j)

\* Every array access of one iteration of the encoding loop is in bounds:
\* the two tables, rhs[RS_MAX_PARITY_SYMBOLS] and the caller's buffer.
StepInBounds(mm, s, par) ==
    /\ mm <= RS_MAX_PARITY_SYMBOLS
    /\ mm <= ParityCap
    /\ AddInBounds(mm, s, par[0])
    /\ \A j \in 0 .. (mm - 1) : MulInBounds(mm, Feedback(mm, s, par), j)
    /\ \A j \in 0 .. (mm - 2) : AddInBounds(mm, par[j + 1], Rhs(mm, s, par, j))
    /\ AddInBounds(mm, 0, Rhs(mm, s, par, mm - 1))

\* for (j < m - 1) parity[j] = galois_field_add(m, parity[j + 1], rhs[j]),
\* from index j on, one store after the other.
RECURSIVE SumLoop(_, _, _, _)
SumLoop(mm, rhs, par, j) ==
    IF j < mm - 1
    THEN SumLoop(mm, rhs,
                 [ par EXCEPT ![j] = ToU8(galois_field_add(mm, par[j + 1], rhs[j])) ],
                 j + 1)
    ELSE par

LfsrShiftKeepsLast(mm, s, par) ==
    LET rhs == [ j \in 0 .. (mm - 1) |-> Rhs(mm, s, par, j) ]
    IN  SumLoop(mm, rhs, par, 0)

\* One iteration of the encoding loop on the symbol s: rhs[0..m-1] from
\* the feedback, the sum loop, then
\*   parity[m - 1] = galois_field_add(m, 0, rhs[m - 1]).
LfsrShift(mm, s, par) ==
    LET rhs == [ j \in 0 .. (mm - 1) |-> Rhs(mm, s, par, j) ]
        summed == SumLoop(mm, rhs, par, 0)
    IN  [ summed EXCEPT ![mm - 1] = ToU8(galois_field_add(mm, 0, rhs[mm - 1])) ]

\* The encoding loop run on the symbols of a sequence, first to last.
RECURSIVE RunSteps(_, _, _)
RunSteps(mm, syms, par) ==
    IF syms = << >> THEN par
    ELSE RunSteps(mm, Tail(syms), LfsrShift(mm, Head(syms), par))

NoCall == [ valid |-> FALSE, msg |-> << >>, k |-> 0, t |-> 0, m |-> 0,
            out |-> << >>, ret |-> 0 ]

\* What the caller keeps of a completed call when it starts the next one.
LastCall ==
    IF pc = "done"
    THEN [ valid |-> TRUE, msg |-> msg, k |-> k, t |-> t, m |-> m,
           out |-> parity, ret |-> ret ]
    ELSE prev

\* Entry of rs_encode_message up to the encoding loop (lines 41-59): n,
\* blockSize, shortened, the padding and the copy of the message into msgZ.
\* A store outside msgZ is undefined behaviour.
Begin(ms, kk, tt, mm) ==
    /\ msg' = ms
    /\ k' = kk
    /\ t' = tt
    /\ m' = mm
    /\ entry' = parity
    /\ prev' = LastCall
    /\ calls' = calls + 1
    /\ shortened' = Shortened(kk, tt, mm)
    /\ idx' = MsgZIndices(kk, tt, mm)
    /\ written' = {}
    /\ i' = 0
    /\ IF MsgZIndices(kk, tt, mm) \subseteq 0 .. (MsgZLen - 1)
       THEN /\ msgZ' = PaddedMessage(ms, kk, tt, mm)
            /\ pc' = "loop"
       ELSE /\ msgZ' = msgZ
            /\ pc' = "undefined"
    /\ UNCHANGED <<parity, ret, gfcall>>

\* One iteration of for (i < shortened + k) (lines 67-82). A table lookup
\* outside its table is undefined behaviour.
LfsrStep ==
    /\ pc = "loop"
    /\ i < shortened + k
    /\ IF StepInBounds(m, msgZ[i], parity)
       THEN /\ parity' = LfsrShift(m, msgZ[i], parity)
            /\ written' = written \cup (0 .. (m - 1))
            /\ i' = i + 1
            /\ pc' = "loop"
       ELSE /\ pc' = "undefined"
            /\ UNCHANGED <<parity, written, i>>
    /\ UNCHANGED <<msg, k, t, m, entry, msgZ, shortened, ret, idx, prev,
                   calls, other, gfcall>>

\* return 0 (line 84), the only return of the function.
Return ==
    /\ pc = "loop"
    /\ ~(i < shortened + k)
    /\ ret' = 0
    /\ pc' = "done"
    /\ UNCHANGED <<msg, k, t, m, parity, entry, msgZ, shortened, i, idx,
                   written, prev, calls, other, gfcall>>

----------------------------------------------------------------------------
(* The caller (main.c) and the inputs it draws.                            *)

\* uint8_t msgBuffer16fsk[14] = {0x2, 0x5, 0x6, 0x6, 0x0, 0xB, 0xF, 0xC, 0x1, 0xB}
Golden == <<2, 5, 6, 6, 0, 11, 15, 12, 1, 11>>

\* kk symbols of the sample message read cyclically from its r-th symbol.
GoldenCyc(kk, r) == [ j \in 1 .. kk |-> Golden[((j - 1 + r) % Len(Golden)) + 1] ]

ZeroMsg(kk) == [ j \in 1 .. kk |-> 0 ]

\* The messages with one non-zero symbol of GF(16).
UnitMsgs(kk) == { [ ZeroMsg(kk) EXCEPT ![p] = v ] : p \in 1 .. kk, v \in 1 .. 15 }

FullMsgs(kk) == IF kk <= MaxFullLen THEN [ 1 .. kk -> 0 .. 15 ] ELSE {}

SampleMsgs(kk) == { GoldenCyc(kk, r) : r \in 0 .. MaxRot }

\* Messages of kk symbols, each a field element of GF(16).
FieldMsgs(kk) ==
    {ZeroMsg(kk)} \cup UnitMsgs(kk) \cup FullMsgs(kk) \cup SampleMsgs(kk)

\* Messages for any symbol width mm; the last one holds the symbol 2^mm,
\* which is not an mm-bit symbol.
AnyMsgs(kk, mm) ==
    {ZeroMsg(kk)} \cup SampleMsgs(kk)
        \cup { [ GoldenCyc(kk, 0) EXCEPT ![kk] = BlockSize(mm) ] }

\* The caller's buffer holding the value d in every element.
Filled(d) == [ j \in 0 .. (ParityCap - 1) |-> d ]

InitCommon ==
    /\ pc = "idle"
    /\ msg = << >>
    /\ k = 0
    /\ t = 0
    /\ m = 0
    /\ entry = parity
    /\ msgZ = [ j \in 0 .. (MsgZLen - 1) |-> 0 ]
    /\ shortened = 0
    /\ i = 0
    /\ ret = 0
    /\ idx = {}
    /\ written = {}
    /\ prev = NoCall
    /\ calls = 0
    /\ other = << >>
    /\ gfcall = << >>

\* The buffer holds anything the caller left in it.
Init ==
    /\ parity \in { Filled(d) : d \in 0 .. MaxDirty }
    /\ InitCommon

\* A first call with any arguments up to one past each configured maximum.
Call ==
    /\ pc = "idle"
    /\ calls < MaxCalls
    /\ \E mm \in 4 .. (RS_MAX_SYMBOL_SIZE + 1),
          kk \in 1 .. (RS_MAX_MESSAGE_LENGTH + 1),
          tt \in 1 .. (RS_MAX_PARITY_SYMBOLS + 1) :
          \E ms \in AnyMsgs(kk, mm) : Begin(ms, kk, tt, mm)
    /\ UNCHANGED other

\* The same call again, on the buffer the call before it left.
Recall ==
    /\ pc = "done"
    /\ calls < MaxCalls
    /\ Begin(msg, k, t, m)
    /\ UNCHANGED other

Next == Call \/ Recall \/ LfsrStep \/ Return

Spec == Init /\ [][Next]_vars

\* The caller of main.c: m = 4, t = 4 and a zero-initialised buffer.
Init16 ==
    /\ parity = Filled(0)
    /\ InitCommon

\* One call with m = 4, t = 4 and a message of field elements; the caller
\* also picks a second message of the same length.
Call16 ==
    /\ pc = "idle"
    /\ calls = 0
    /\ \E kk \in 1 .. ((BlockSize(4) - 1) - 4) :
          \E ms \in FieldMsgs(kk), ot \in SampleMsgs(kk) :
              /\ Begin(ms, kk, 4, 4)
              /\ other' = ot

Next16 == Call16 \/ LfsrStep \/ Return

Spec16 == Init16 /\ [][Next16]_vars

\* The two table functions called on their own, inside their tables.
AddLookup ==
    /\ pc = "idle"
    /\ \E mm \in 4 .. (RS_MAX_SYMBOL_SIZE + 1), l \in 0 .. 15, r \in 0 .. 15 :
          /\ AddInBounds(mm, l, r)
          /\ gfcall' = <<"add", mm, l, r, galois_field_add(mm, l, r)>>
    /\ UNCHANGED <<pc, msg, k, t, m, parity, entry, msgZ, shortened, i, ret,
                   idx, written, prev, calls, other>>

MulLookup ==
    /\ pc = "idle"
    /\ \E mm \in 4 .. (RS_MAX_SYMBOL_SIZE + 1), l \in 0 .. 15, j \in 0 .. 3 :
          /\ MulInBounds(mm, l, j)
          /\ gfcall' = <<"mul", mm, l, j, galois_field_multiply_generator(mm, l, j)>>
    /\ UNCHANGED <<pc, msg, k, t, m, parity, entry, msgZ, shortened, i, ret,
                   idx, written, prev, calls, other>>

NextTables == AddLookup \/ MulLookup

SpecTables == Init16 /\ [][NextTables]_vars

----------------------------------------------------------------------------
(* Reference arithmetic of GF(16), computed without the tables: elements   *)
(* are polynomials over GF(2) modulo x^4 + x + 1, alpha = x.               *)

\* Bitwise exclusive or of two naturals.
RECURSIVE Xor(_, _)
Xor(a, b) ==
    IF a = 0 THEN b
    ELSE IF b = 0 THEN a
    ELSE ((a + b) % 2) + 2 * Xor(a \div 2, b \div 2)

\* a * x modulo x^4 + x + 1 (binary 10011).
XTimes(a) == IF 2 * a >= 16 THEN Xor(2 * a, 16 + 2 + 1) ELSE 2 * a

\* The product of two elements, by shift and add.
RECURSIVE GFMul(_, _)
GFMul(a, b) ==
    IF b = 0 THEN 0
    ELSE Xor(IF b % 2 = 1 THEN a ELSE 0, GFMul(XTimes(a), b \div 2))

RECURSIVE AlphaPow(_)
AlphaPow(e) == IF e = 0 THEN 1 ELSE XTimes(AlphaPow(e - 1))

XorSeq(p, q) == [ j \in 1 .. Len(p) |-> Xor(p[j], q[j]) ]

\* p(x) * (x + root), coefficients highest order first.
MulByLinear(p, root) ==
    [ j \in 1 .. (Len(p) + 1) |->
        Xor(IF j <= Len(p) THEN p[j] ELSE 0,
            IF j >= 2 THEN GFMul(root, p[j - 1]) ELSE 0) ]

\* (x + alpha^1)(x + alpha^2)...(x + alpha^n)
RECURSIVE GenFromRoots(_)
GenFromRoots(n) ==
    IF n = 0 THEN <<1>> ELSE MulByLinear(GenFromRoots(n - 1), AlphaPow(n))

\* g(x) = x^4 + 13x^3 + 12x^2 + 8x + 7
Generator == <<1, 13, 12, 8, 7>>

\* The remainder of c(x) divided by the monic g(x), by long division;
\* Len(g) - 1 coefficients, highest order first.
RECURSIVE PolyRem(_, _)
PolyRem(c, g) ==
    IF Len(c) < Len(g) THEN c
    ELSE PolyRem(
           [ j \in 1 .. (Len(c) - 1) |->
               IF j + 1 <= Len(g)
               THEN Xor(c[j + 1], GFMul(c[1], g[j + 1]))
               ELSE c[j + 1] ],
           g)

Zeros(n) == [ j \in 1 .. n |-> 0 ]

\* The first n elements of a parity buffer, as a sequence.
Reg(par, n) == [ j \in 1 .. n |-> par[j - 1] ]

\* The symbols msgZ[0 .. shortened + k - 1] the encoding loop reads.
LoopSymbols(ms, kk, tt, mm) ==
    LET padded == PaddedMessage(ms, kk, tt, mm)
    IN  [ j \in 1 .. (Shortened(kk, tt, mm) + kk) |-> padded[j - 1] ]

\* The buffer a call leaves when every access of it is in bounds.
Encode(ms, kk, tt, mm, par) == RunSteps(mm, LoopSymbols(ms, kk, tt, mm), par)

\* The call in progress satisfies the preconditions on k, t and the symbols.
SizesValid ==
    /\ k + t <= BlockSize(m) - 1
    /\ k \in 1 .. RS_MAX_MESSAGE_LENGTH
    /\ t \in 1 .. RS_MAX_PARITY_SYMBOLS
    /\ \A j \in 1 .. k : msg[j] < BlockSize(m)

\* The call in progress satisfies every precondition of the interface.
ValidArgs == m = 4 /\ SizesValid

----------------------------------------------------------------------------
(* Claims.                                                                 *)

\* C1: for m = 4, t = 4 and a zeroed buffer the call returns 0 and leaves
\* in parity[0..3] the remainder of message(x) * x^4 divided by g(x), so
\* that message ++ parity is divisible by g(x); the sample message of
\* main.c gets the parity [6, 6, 8, 4].
C1_ParityIsRemainder ==
    /\ pc # "undefined"
    /\ pc = "done" =>
          /\ ret = 0
          /\ Reg(parity, 4) = PolyRem(msg \o Zeros(4), Generator)
          /\ PolyRem(msg \o Reg(parity, 4), Generator) = Zeros(4)
          /\ msg = Golden => Reg(parity, 4) = <<6, 6, 8, 4>>

C1_Witness ==
    /\ pc = "done"
    /\ msg = Golden
    /\ Reg(parity, 4) = <<6, 6, 8, 4>>

\* C2: two calls with the same (valid) arguments leave the same parity,
\* whatever the buffer held on entry, also when the second call gets the
\* buffer the first one filled.
C2_SameArgsSameParity ==
    ( /\ pc = "done"
      /\ ValidArgs
      /\ prev.valid
      /\ <<prev.msg, prev.k, prev.t, prev.m>> = <<msg, k, t, m>> )
        => Reg(parity, t) = Reg(prev.out, t)

\* C3: a successful call stores to exactly parity[0..t-1]: every element
\* below t is written and every element from t on is unchanged.
C3_WritesExactlyT ==
    (pc = "done" /\ ret = 0 /\ ValidArgs) =>
        /\ written = 0 .. (t - 1)
        /\ \A j \in t .. (ParityCap - 1) : parity[j] = entry[j]

\* C4: a call with a symbol width other than 4 (and nothing else wrong with
\* its arguments) returns non-zero and leaves the buffer as it was on entry.
C4_UnsupportedWidthRejected ==
    (pc = "done" /\ m # 4 /\ SizesValid) => (ret # 0 /\ parity = entry)

\* C5: a call that violates a precondition (k + t > 2^m - 1, k > 16, t > 8
\* or a symbol >= 2^m) returns non-zero and leaves the buffer as it was.
C5_PreconditionsChecked ==
    ( /\ pc = "done"
      /\ \/ k + t > BlockSize(m) - 1
         \/ k > RS_MAX_MESSAGE_LENGTH
         \/ t > RS_MAX_PARITY_SYMBOLS
         \/ \E j \in 1 .. k : msg[j] >= BlockSize(m) )
        => (ret # 0 /\ parity = entry)

\* C6: for m = 4, t = 4 and zeroed buffers, the XOR of the parities of two
\* messages is the parity of their XOR.
C6_Linear ==
    pc = "done" =>
        XorSeq(Reg(parity, 4), Reg(Encode(other, k, 4, 4, Filled(0)), 4))
            = Reg(Encode(XorSeq(msg, other), k, 4, 4, Filled(0)), 4)

C6_Witness ==
    /\ pc = "done"
    /\ k = 11
    /\ msg # other
    /\ msg # ZeroMsg(k)
    /\ Reg(parity, 4) # Zeros(4)
    /\ Reg(Encode(other, k, 4, 4, Filled(0)), 4) # Zeros(4)

\* C7: galois_field_add(4, a, b) is the bitwise XOR of a and b: it stays in
\* 0..15, is commutative and associative, has identity 0 and add(a, a) = 0.
C7_AddIsXor ==
    (Len(gfcall) > 0 /\ gfcall[1] = "add" /\ gfcall[2] = 4) =>
        LET l == gfcall[3]
            r == gfcall[4]
            sum == gfcall[5]
        IN  /\ sum = Xor(l, r)
            /\ sum \in 0 .. 15
            /\ galois_field_add(4, r, l) = sum
            /\ r = 0 => sum = l
            /\ l = r => sum = 0
            /\ \A c \in 0 .. 15 :
                   galois_field_add(4, sum, c)
                       = galois_field_add(4, l, galois_field_add(4, r, c))

C7_Witness ==
    /\ Len(gfcall) > 0
    /\ gfcall = <<"add", 4, 15, 14, 1>>

\* C8: galois_field_multiply_generator(4, a, j) is the GF(16) product of a
\* and the j-th non-leading coefficient of the generator with the roots
\* alpha^1..alpha^4, which is [13, 12, 8, 7].
C8_MulIsGeneratorProduct ==
    (Len(gfcall) > 0 /\ gfcall[1] = "mul" /\ gfcall[2] = 4) =>
        LET a == gfcall[3]
            j == gfcall[4]
            prod == gfcall[5]
        IN  /\ GenFromRoots(4) = Generator
            /\ prod = GFMul(a, GenFromRoots(4)[j + 2])
            /\ a = 0 => prod = 0
            /\ a = 1 => prod = <<13, 12, 8, 7>>[j + 1]

C8_Witness ==
    /\ Len(gfcall) > 0
    /\ gfcall = <<"mul", 4, 1, 0, 13>>

\* C9: for m = 4, t = 4 and a zeroed buffer the call takes shortened + k =
\* 15 - t steps, the first shortened of them on the symbol 0 with the
\* register staying zero, so that the parity is that of the k message steps
\* alone; with k + t = 15 there is no padding step.
C9_PaddingKeepsZero ==
    /\ pc = "done" => (i = shortened + k /\ i = 15 - t)
    /\ pc \in {"loop", "done"} => shortened = 15 - (k + t)
    /\ (pc = "loop" /\ i < shortened) => msgZ[i] = 0
    /\ (pc = "loop" /\ i <= shortened) => Reg(parity, 4) = Zeros(4)
    /\ pc = "done" => parity = RunSteps(4, msg, Filled(0))
    /\ (pc \in {"loop", "done"} /\ k + t = 15) => shortened = 0

C9_Witness ==
    /\ pc = "done"
    /\ shortened = 5
    /\ i = 11
    /\ Reg(parity, 4) # Zeros(4)

\* C10: for a call within the configured maxima every index used into
\* msgZ lies in 0..23.
C10_MsgZIndicesInBounds ==
    ( /\ pc # "idle"
      /\ m \in 4 .. RS_MAX_SYMBOL_SIZE
      /\ k \in 1 .. RS_MAX_MESSAGE_LENGTH
      /\ t \in 1 .. RS_MAX_PARITY_SYMBOLS
      /\ k + t <= BlockSize(m) - 1 )
        => idx \subseteq 0 .. (RS_MAX_PARITY_SYMBOLS + RS_MAX_MESSAGE_LENGTH - 1)

====
